---- MODULE Spec2Model ----
(***************************************************************************)
(* VideoReader of frame-detector-video-demo/VideoDemo.cpp: construction,   *)
(* GetFrame (the sampling gate) and GetFrameData (the raw fetch with its   *)
(* retries), run against a cv::VideoCapture whose grab/retrieve results    *)
(* and reported positions are arbitrary.                                   *)
(*                                                                         *)
(* Integers wider than TLC's are kept exact as three limbs:                *)
(* [top, hi, lo] stands for top * 2^64 + hi * 2^32 + lo, with lo and hi    *)
(* small in magnitude, so that 2^32 - 2 is [0, 1, -2].                     *)
(***************************************************************************)
EXTENDS Integers, Sequences, FiniteSets, TLC

\* ------------------------------------------------------------- bounds
MaxPos == 3        \* the decoder reports positions 0..MaxPos (milliseconds)
MaxDecoded == 3    \* frames one decoder can grab during a reader's life
MaxCalls == 3      \* GetFrame calls made on one reader
MaxPasses == 2     \* passes of main's playback loop

\* static const int MAX_ATTEMPTS = 2;
MAX_ATTEMPTS == 2

\* ------------------------------------------------------ wide integers
W(t, h, l) == [top |-> t, hi |-> h, lo |-> l]
Small(x) == W(0, 0, x)
Zero == Small(0)
WSub(a, b) == W(a.top - b.top, a.hi - b.hi, a.lo - b.lo)
WLess(a, b) ==
    \/ a.top < b.top
    \/ a.top = b.top /\ a.hi < b.hi
    \/ a.top = b.top /\ a.hi = b.hi /\ a.lo < b.lo
WLeq(a, b) == a = b \/ WLess(a, b)

\* Conversion to unsigned int (modulo 2^32) of a value in (-2^32, 2^33).
ToUnsignedInt(x) ==
    IF WLess(x, Zero) THEN W(x.top, x.hi + 1, x.lo)
    ELSE IF WLeq(W(0, 1, 0), x) THEN W(x.top, x.hi - 1, x.lo)
    ELSE x

\* Conversion to a 64-bit unsigned type (modulo 2^64) of a value in (-2^64, 2^64).
ToUnsigned64(x) == IF WLess(x, Zero) THEN W(x.top + 1, x.hi, x.lo) ELSE x

\* `timestamp` is a typedef of the SDK headers (Platform.h / FrameDetector.h),
\* an integer count of milliseconds: the builds differ in its width and sign.
TimestampTypes == {"int32", "int64", "uint64"}

\* An unsigned int value converted to `timestamp`.
ToTimestamp(T, u) ==
    IF T = "int32" /\ u.hi = 1 THEN W(u.top, 0, u.lo)   \* u >= 2^31: u - 2^32
    ELSE u

\* cap.get(CV_CAP_PROP_POS_MSEC), a double, converted to `timestamp`.
PosToTimestamp(T, p) == Small(p)

\* 1000 / sampling_frame_rate in unsigned int, sampling_frame_rate > 0.
Interval(rate) ==
    IF rate.top = 0 /\ rate.hi = 0 THEN Small(1000 \div rate.lo) ELSE Zero

\* ------------------------------------------------------------- state
VARIABLES
    tsType,               \* which `timestamp` this build has
    pc,                   \* where the caller is: "none" (no reader), "idle" (a reader, between
                          \* calls), "fetch" (GetFrame's do-while, before GetFrameData),
                          \* "retry" (GetFrameData, at its while)
    file_ext,             \* file_path.extension() of the latest construction
    rate_arg,             \* the sampling rate the latest construction was given
    ctorResult,           \* how the latest construction ended: "ok", or what it threw
                          \* ("rate", "ext", "open"); "not run" before any
    openCalls,            \* cap.open calls made by the latest construction
    sampling_frame_rate,  \* unsigned int
    last_timestamp_ms,    \* timestamp
    cap,                  \* the cv::VideoCapture: its position, its stream, what it decoded
    timestamp_ms,         \* the caller's timestamp (the out parameter)
    bgr_frame,            \* the caller's cv::Mat: the number of the frame it holds, 0 if empty
    prev_timestamp_ms,    \* GetFrameData's locals, as the latest fetch left them
    n_attempts,
    frame_found,
    frame_retrieved,
    decoded,              \* whether the latest attempt grabbed and retrieved a frame
    calls,                \* GetFrame calls begun on this reader
    fetches,              \* GetFrameData calls made by the current (or latest) GetFrame call
    endedAtCall,          \* whether the stream had ended when the current GetFrame call began
    ret,                  \* what the latest completed GetFrame call returned
    accepted,             \* the frames GetFrame returned with true, in pull order
    mpc,                  \* where main is: "off" (the reader is driven by any caller), "try",
                          \* "create", "configure", "construct", "frames", "process",
                          \* "pass_end", "stop", "catch", "exit0", "exit1", "crashed"
    loop,                 \* main's loop (--loop)
    video_ext,            \* video_path.extension()
    main_rate,            \* main's sampling_frame_rate (--sfps)
    detector,             \* main's unique_ptr and the detector it owns: "empty", "created",
                          \* "started", "stopped"
    det_frames,           \* frames the detector was given since its start or latest reset
    starts,               \* detector->start() calls
    stops,                \* detector->stop() calls that reached a detector
    null_calls,           \* member calls made through the empty unique_ptr
    passes,               \* passes of the do-while begun
    processed             \* detector->process calls of the current pass

readerVars == <<sampling_frame_rate, last_timestamp_ms, cap>>
fetchVars == <<prev_timestamp_ms, n_attempts, frame_found, frame_retrieved, decoded>>
ctorVars == <<file_ext, rate_arg, ctorResult, openCalls>>

vars == <<tsType, pc, file_ext, rate_arg, ctorResult, openCalls, sampling_frame_rate,
          last_timestamp_ms, cap, timestamp_ms, bgr_frame, prev_timestamp_ms,
          n_attempts, frame_found, frame_retrieved, decoded, calls, fetches,
          endedAtCall, ret, accepted, mpc, loop, video_ext, main_rate, detector,
          det_frames, starts, stops, null_calls, passes, processed>>

mainArgs == <<loop, video_ext, main_rate>>
detectorVars == <<detector, det_frames, starts, stops, null_calls>>
mainVars == <<mpc, loop, video_ext, main_rate, detector, det_frames, starts, stops,
              null_calls, passes, processed>>

\* ------------------------------------------------------------ inputs
Positions == 0..MaxPos
\* Sampling rates a caller asks for; 1000 / 500 = 2, 1000 / 2000 = 0.
Rates == {-1, 0, 500, 2000}
Exts == {".avi", ".mov", ".flv", ".webm", ".wmv", ".mp4", ".txt", ".MP4", ".mp3", ""}
\* The files played frame by frame: one that opens, one that is refused.
PlayedExts == {".mp4", ".txt"}
\* --sfps values main is run with (an unsigned int option).
MainRates == {0, 500}

\* ------------------------------------------------------- construction
SUPPORTED_EXTS == {".avi", ".mov", ".flv", ".webm", ".wmv", ".mp4"}

\* if (sampling_frame_rate < 0), on the unsigned int member
RateRejected(rate) == WLess(rate, Zero)

\* sampling_frame_rate == 0 ? -1 : (0 - 1000 / sampling_frame_rate):
\* both arms are brought to unsigned int, the result is stored in a timestamp.
InitialLastTimestamp(T, rate) ==
    LET u == IF rate = Zero
             THEN ToUnsignedInt(Small(-1))
             ELSE ToUnsignedInt(WSub(Zero, Interval(rate)))
    IN ToTimestamp(T, u)

ClosedCap == [pos |-> 0, ended |-> FALSE, count |-> 0, good |-> -1, mono |-> TRUE]

\* CtorOutcome with cap.open moved ahead of the extension check.
CtorOutcomeOpenFirst(rate, ext, canOpen) ==
    IF RateRejected(rate) THEN [result |-> "rate", opens |-> 0]
    ELSE IF ~canOpen THEN [result |-> "open", opens |-> 1]
    ELSE IF ext \notin SUPPORTED_EXTS THEN [result |-> "ext", opens |-> 1]
    ELSE [result |-> "ok", opens |-> 1]

\* The steps of the constructor in order: what it throws, and whether it got
\* as far as cap.open.
CtorOutcome(rate, ext, canOpen) ==
    IF RateRejected(rate) THEN [result |-> "rate", opens |-> 0]
    ELSE IF ext \notin SUPPORTED_EXTS THEN [result |-> "ext", opens |-> 0]
    ELSE IF ~canOpen THEN [result |-> "open", opens |-> 1]
    ELSE [result |-> "ok", opens |-> 1]

\* No reader, and nothing left of an earlier one.
Cleared ==
    /\ sampling_frame_rate' = Zero
    /\ last_timestamp_ms' = Zero
    /\ cap' = ClosedCap
    /\ timestamp_ms' = Zero
    /\ bgr_frame' = 0
    /\ prev_timestamp_ms' = Zero
    /\ n_attempts' = 0
    /\ frame_found' = FALSE
    /\ frame_retrieved' = FALSE
    /\ decoded' = FALSE
    /\ calls' = 0
    /\ fetches' = 0
    /\ endedAtCall' = FALSE
    /\ ret' = FALSE
    /\ accepted' = <<>>

\* VideoReader video_reader(video_path, sampling_frame_rate); rateArg is what
\* the caller passes for the unsigned int parameter, ended whether the file
\* holds no frame at all.
Construct(ext, rateArg, canOpen, ended) ==
    /\ pc = "none"
    /\ LET rate == ToUnsignedInt(Small(rateArg))
           out == CtorOutcome(rate, ext, canOpen)
       IN /\ file_ext' = ext
          /\ rate_arg' = rateArg
          /\ ctorResult' = out.result
          /\ openCalls' = out.opens
          /\ IF out.result = "ok"
             THEN /\ pc' = "idle"
                  /\ sampling_frame_rate' = rate
                  /\ last_timestamp_ms' = InitialLastTimestamp(tsType, rate)
                  /\ cap' = [ClosedCap EXCEPT !.ended = ended]
                  /\ UNCHANGED <<timestamp_ms, bgr_frame, fetchVars, calls, fetches,
                                 endedAtCall, ret, accepted>>
             ELSE /\ pc' = "none"
                  /\ Cleared
    /\ UNCHANGED tsType

\* The reader goes out of scope (the end of the playback loop's body).
Destroy ==
    /\ pc = "idle"
    /\ pc' = "none"
    /\ file_ext' = ""
    /\ rate_arg' = 0
    /\ ctorResult' = "not run"
    /\ openCalls' = 0
    /\ Cleared
    /\ UNCHANGED tsType

\* --------------------------------------------------------- the decoder
\* What one cap.grab() + cap.retrieve(bgr_frame) + cap.get(POS_MSEC) can give
\* on decoder c: any results and any position; a grab takes the next frame of
\* the stream; once the stream has ended both fail for good.
Attempts(c) ==
    {a \in [found : BOOLEAN, retrieved : BOOLEAN, pos : Positions, ended : BOOLEAN] :
        /\ c.ended => a.ended
        /\ a.ended => ~a.found /\ ~a.retrieved
        /\ a.found => c.count < MaxDecoded
        /\ (a.retrieved /\ ~a.found) => c.count > 0}

\* The decoder after attempt a. good and mono record its behaviour: the
\* position it reported at its latest successful decode, and whether every
\* successful decode so far reported a later position than the one before.
After(c, a) ==
    LET ok == a.found /\ a.retrieved
    IN [pos |-> a.pos,
        ended |-> a.ended,
        count |-> IF a.found THEN c.count + 1 ELSE c.count,
        good |-> IF ok THEN a.pos ELSE c.good,
        mono |-> c.mono /\ (ok => a.pos > c.good)]

\* The frame cap.retrieve leaves in the Mat: the frame grabbed last, or none.
Retrieved(c, a) == IF a.retrieved THEN After(c, a).count ELSE 0

\* Attempt with timestamp_ms read before the grab instead of after it.
AttemptStaleTimestamp(a) ==
    /\ cap' = After(cap, a)
    /\ frame_found' = a.found
    /\ frame_retrieved' = a.retrieved
    /\ decoded' = (a.found /\ a.retrieved)
    /\ bgr_frame' = Retrieved(cap, a)
    /\ timestamp_ms' = PosToTimestamp(tsType, cap.pos)

\* frame_found = cap.grab(); frame_retrieved = cap.retrieve(bgr_frame);
\* timestamp_ms = cap.get(::CV_CAP_PROP_POS_MSEC);
Attempt(a) ==
    /\ cap' = After(cap, a)
    /\ frame_found' = a.found
    /\ frame_retrieved' = a.retrieved
    /\ decoded' = (a.found /\ a.retrieved)
    /\ bgr_frame' = Retrieved(cap, a)
    /\ timestamp_ms' = PosToTimestamp(tsType, a.pos)

\* ------------------------------------------------------------ GetFrame
\* TooSoon with the comparison turned round.
TooSoonFlipped(T, ts, last, rate) == WLess(Interval(rate), WSub(ts, last))

\* (timestamp_ms - last_timestamp_ms) < 1000 / sampling_frame_rate: the left
\* side is a timestamp, the right side an unsigned int.
TooSoon(T, ts, last, rate) ==
    LET d == WSub(ts, last)
    IN CASE T = "int32" -> WLess(ToUnsignedInt(d), Interval(rate))
         [] T = "int64" -> WLess(d, Interval(rate))
         [] T = "uint64" -> WLess(ToUnsigned64(d), Interval(rate))

\* SamplingGate with a rate of 0 taken as 1 frame per second.
SamplingGateZeroAsOne(T, rate, ts, last, loaded) ==
    /\ WLess(Zero, ts)
    /\ IF rate = Zero THEN WLess(WSub(ts, last), Small(1000))
                      ELSE TooSoon(T, ts, last, rate)
    /\ loaded

\* SamplingGate without its frame_data_loaded test.
SamplingGateIgnoresLoaded(T, rate, ts, last, loaded) ==
    /\ WLess(Zero, rate)
    /\ WLess(Zero, ts)
    /\ TooSoon(T, ts, last, rate)

\* SamplingGate without its timestamp_ms > 0 test.
SamplingGateNoPositiveTest(T, rate, ts, last, loaded) ==
    /\ WLess(Zero, rate)
    /\ TooSoon(T, ts, last, rate)
    /\ loaded

\* The do-while condition.
SamplingGate(T, rate, ts, last, loaded) ==
    /\ WLess(Zero, rate)
    /\ WLess(Zero, ts)
    /\ TooSoon(T, ts, last, rate)
    /\ loaded

\* video_reader.GetFrame(mat, timestamp_ms) is entered.
GetFrameCall ==
    /\ pc = "idle"
    /\ calls < MaxCalls
    /\ pc' = "fetch"
    /\ calls' = calls + 1
    /\ fetches' = 0
    /\ endedAtCall' = cap.ended
    /\ UNCHANGED <<tsType, ctorVars, readerVars, timestamp_ms, bgr_frame,
                   fetchVars, ret, accepted>>

\* ------------------------------------------------------- GetFrameData
\* GetFrameData up to its while: prev_timestamp_ms, the first attempt,
\* n_attempts = 0.
FirstAttempt ==
    /\ pc = "fetch"
    /\ prev_timestamp_ms' = PosToTimestamp(tsType, cap.pos)
    /\ \E a \in Attempts(cap) : Attempt(a)
    /\ n_attempts' = 0
    /\ fetches' = fetches + 1
    /\ pc' = "retry"
    /\ UNCHANGED <<tsType, ctorVars, sampling_frame_rate, last_timestamp_ms,
                   calls, endedAtCall, ret, accepted>>

\* Retrying with <= for <.
RetryingOffByOne == ~(frame_found /\ frame_retrieved) /\ n_attempts <= MAX_ATTEMPTS

\* while (!(frame_found && frame_retrieved) && n_attempts++ < MAX_ATTEMPTS)
Retrying == ~(frame_found /\ frame_retrieved) /\ n_attempts < MAX_ATTEMPTS

\* One turn of the while: n_attempts++ and another attempt.
RetryAttempt ==
    /\ pc = "retry"
    /\ Retrying
    /\ n_attempts' = n_attempts + 1
    /\ \E a \in Attempts(cap) : Attempt(a)
    /\ UNCHANGED <<tsType, pc, ctorVars, sampling_frame_rate, last_timestamp_ms,
                   prev_timestamp_ms, calls, fetches, endedAtCall, ret, accepted>>

\* Stalled without its n_attempts > 0 test.
StalledEvenWithoutRetry(found, retrieved, n, ts, prev) ==
    found /\ retrieved /\ WLeq(ts, prev)

\* Stalled with < for <=.
StalledStrict(found, retrieved, n, ts, prev) ==
    found /\ retrieved /\ n > 0 /\ WLess(ts, prev)

\* if (frame_found && frame_retrieved && n_attempts > 0)
\*     if (timestamp_ms <= prev_timestamp_ms) frame_found = false;
Stalled(found, retrieved, n, ts, prev) ==
    found /\ retrieved /\ n > 0 /\ WLeq(ts, prev)

\* The while is left (n_attempts++ is still evaluated when the attempt had
\* failed), GetFrameData returns frame_found && frame_retrieved, and GetFrame
\* either goes round its do-while again, dropping the frame, or sets
\* last_timestamp_ms = timestamp_ms and returns frame_data_loaded.
FetchReturn ==
    /\ pc = "retry"
    /\ ~Retrying
    /\ LET n == IF frame_found /\ frame_retrieved THEN n_attempts ELSE n_attempts + 1
           found == IF Stalled(frame_found, frame_retrieved, n, timestamp_ms,
                               prev_timestamp_ms)
                    THEN FALSE ELSE frame_found
           frame_data_loaded == found /\ frame_retrieved
       IN /\ n_attempts' = n
          /\ frame_found' = found
          /\ IF SamplingGate(tsType, sampling_frame_rate, timestamp_ms,
                             last_timestamp_ms, frame_data_loaded)
             THEN /\ pc' = "fetch"
                  /\ UNCHANGED <<last_timestamp_ms, ret, accepted>>
             ELSE /\ pc' = "idle"
                  /\ last_timestamp_ms' = timestamp_ms
                  /\ ret' = frame_data_loaded
                  /\ accepted' =
                       IF frame_data_loaded
                       THEN Append(accepted, [ts |-> timestamp_ms,
                                              frame |-> bgr_frame,
                                              call |-> calls])
                       ELSE accepted
    /\ UNCHANGED <<tsType, ctorVars, sampling_frame_rate, cap, timestamp_ms,
                   bgr_frame, prev_timestamp_ms, frame_retrieved, decoded, calls,
                   fetches, endedAtCall>>

\* --------------------------------------------------------------- main
\* The try block is entered: the csv file is opened, or main returns 1.
OpenCsv ==
    /\ mpc = "try"
    /\ \E is_open \in BOOLEAN : mpc' = IF is_open THEN "create" ELSE "exit1"
    /\ UNCHANGED <<tsType, pc, ctorVars, readerVars, timestamp_ms, bgr_frame,
                   fetchVars, calls, fetches, endedAtCall, ret, accepted,
                   mainArgs, detectorVars, passes, processed>>

\* detector = unique_ptr(new vision::SyncFrameDetector(data_dir, num_faces));
\* the new expression returns, or throws before anything is assigned.
CreateDetector ==
    /\ mpc = "create"
    /\ \E thrown \in BOOLEAN :
          IF thrown THEN mpc' = "catch" /\ detector' = detector
                    ELSE mpc' = "configure" /\ detector' = "created"
    /\ UNCHANGED <<tsType, pc, ctorVars, readerVars, timestamp_ms, bgr_frame,
                   fetchVars, calls, fetches, endedAtCall, ret, accepted,
                   mainArgs, det_frames, starts, stops, null_calls, passes, processed>>

\* detector->enable(...), the listeners, detector->start().
StartDetector ==
    /\ mpc = "configure"
    /\ mpc' = "construct"
    /\ detector' = "started"
    /\ det_frames' = 0
    /\ starts' = starts + 1
    /\ UNCHANGED <<tsType, pc, ctorVars, readerVars, timestamp_ms, bgr_frame,
                   fetchVars, calls, fetches, endedAtCall, ret, accepted,
                   mainArgs, stops, null_calls, passes, processed>>

\* The top of the do-while: VideoReader video_reader(video_path,
\* sampling_frame_rate), which throws or leaves a reader to pull from.
MainConstruct ==
    /\ mpc = "construct"
    /\ passes < MaxPasses
    /\ \E canOpen \in BOOLEAN, ended \in BOOLEAN :
          Construct(video_ext, main_rate, canOpen, ended)
    /\ mpc' = IF ctorResult' = "ok" THEN "frames" ELSE "catch"
    /\ passes' = passes + 1
    /\ processed' = 0
    /\ UNCHANGED <<mainArgs, detectorVars>>

\* while (video_reader.GetFrame(mat, timestamp_ms)): the call and its steps;
\* when it returns, the body on true and the end of the pass on false.
MainGetFrame ==
    /\ mpc = "frames"
    /\ \/ GetFrameCall
       \/ FirstAttempt
       \/ RetryAttempt
       \/ FetchReturn
    /\ mpc' = IF pc' # "idle" THEN "frames"
              ELSE IF ret' THEN "process" ELSE "pass_end"
    /\ UNCHANGED <<mainArgs, detectorVars, passes, processed>>

\* vision::Frame f(..., mat.data, ..., timestamp_ms); detector->process(f);
\* image_listener.processResults();
Process ==
    /\ mpc = "process"
    /\ mpc' = "frames"
    /\ det_frames' = det_frames + 1
    /\ processed' = processed + 1
    /\ UNCHANGED <<tsType, pc, ctorVars, readerVars, timestamp_ms, bgr_frame,
                   fetchVars, calls, fetches, endedAtCall, ret, accepted,
                   mainArgs, detector, starts, stops, null_calls, passes>>

\* The rest of the do-while body: the counts are printed, detector->reset(),
\* image_listener.reset(), video_reader goes out of scope, while (loop).
PassEnd ==
    /\ mpc = "pass_end"
    /\ det_frames' = 0
    /\ Destroy
    /\ mpc' = IF loop THEN "construct" ELSE "stop"
    /\ UNCHANGED <<mainArgs, detector, starts, stops, null_calls, passes, processed>>

\* detector->stop(); csv_file_stream.close(); return 0;
StopDetector ==
    /\ mpc = "stop"
    /\ mpc' = "exit0"
    /\ detector' = "stopped"
    /\ stops' = stops + 1
    /\ UNCHANGED <<tsType, pc, ctorVars, readerVars, timestamp_ms, bgr_frame,
                   fetchVars, calls, fetches, endedAtCall, ret, accepted,
                   mainArgs, det_frames, starts, null_calls, passes, processed>>

\* Catch returning 1 without detector->stop().
CatchWithoutStop ==
    /\ mpc = "catch"
    /\ mpc' = "exit1"
    /\ UNCHANGED <<tsType, pc, ctorVars, readerVars, timestamp_ms, bgr_frame,
                   fetchVars, calls, fetches, endedAtCall, ret, accepted,
                   mainArgs, detectorVars, passes, processed>>

\* catch (std::exception& ex) { ...; detector->stop(); return 1; }
\* Through an empty unique_ptr the call is undefined: the process dies, or
\* goes on to return 1.
Catch ==
    /\ mpc = "catch"
    /\ IF detector = "empty"
       THEN /\ null_calls' = null_calls + 1
            /\ mpc' \in {"crashed", "exit1"}
            /\ UNCHANGED <<detector, stops>>
       ELSE /\ detector' = "stopped"
            /\ stops' = stops + 1
            /\ mpc' = "exit1"
            /\ UNCHANGED null_calls
    /\ UNCHANGED <<tsType, pc, ctorVars, readerVars, timestamp_ms, bgr_frame,
                   fetchVars, calls, fetches, endedAtCall, ret, accepted,
                   mainArgs, det_frames, starts, passes, processed>>

\* ------------------------------------------------------- specification
\* No reader yet; the caller's timestamp and cv::Mat start empty.
NoReader ==
    /\ pc = "none"
    /\ file_ext = ""
    /\ rate_arg = 0
    /\ ctorResult = "not run"
    /\ openCalls = 0
    /\ sampling_frame_rate = Zero
    /\ last_timestamp_ms = Zero
    /\ cap = ClosedCap
    /\ timestamp_ms = Zero
    /\ bgr_frame = 0
    /\ prev_timestamp_ms = Zero
    /\ n_attempts = 0
    /\ frame_found = FALSE
    /\ frame_retrieved = FALSE
    /\ decoded = FALSE
    /\ calls = 0
    /\ fetches = 0
    /\ endedAtCall = FALSE
    /\ ret = FALSE
    /\ accepted = <<>>

Init ==
    /\ tsType \in TimestampTypes
    /\ NoReader
    /\ mpc = "off"
    /\ loop = FALSE
    /\ video_ext = ""
    /\ main_rate = 0
    /\ detector = "empty"
    /\ det_frames = 0
    /\ starts = 0
    /\ stops = 0
    /\ null_calls = 0
    /\ passes = 0
    /\ processed = 0

Next ==
    \/ /\ \E ext \in PlayedExts, rateArg \in Rates, canOpen \in BOOLEAN, ended \in BOOLEAN :
             Construct(ext, rateArg, canOpen, ended)
       /\ UNCHANGED mainVars
    \/ Destroy /\ UNCHANGED mainVars
    \/ GetFrameCall /\ UNCHANGED mainVars
    \/ FirstAttempt /\ UNCHANGED mainVars
    \/ RetryAttempt /\ UNCHANGED mainVars
    \/ FetchReturn /\ UNCHANGED mainVars

Spec == Init /\ [][Next]_vars

\* GetFrame runs on main's only thread: once called, each of its steps is
\* taken as soon as it can be.
SpecLive ==
    /\ Spec
    /\ WF_vars(FirstAttempt /\ UNCHANGED mainVars)
    /\ WF_vars(RetryAttempt /\ UNCHANGED mainVars)
    /\ WF_vars(FetchReturn /\ UNCHANGED mainVars)

\* Construction alone, over every extension and rate.
NextCtor ==
    \/ /\ \E ext \in Exts, rateArg \in Rates, canOpen \in BOOLEAN, ended \in BOOLEAN :
             Construct(ext, rateArg, canOpen, ended)
       /\ UNCHANGED mainVars
    \/ Destroy /\ UNCHANGED mainVars

SpecCtor == Init /\ [][NextCtor]_vars

\* main from its try block on, run with every --loop, --sfps and input file.
InitMain ==
    /\ tsType \in TimestampTypes
    /\ NoReader
    /\ mpc = "try"
    /\ loop \in BOOLEAN
    /\ video_ext \in PlayedExts
    /\ main_rate \in MainRates
    /\ detector = "empty"
    /\ det_frames = 0
    /\ starts = 0
    /\ stops = 0
    /\ null_calls = 0
    /\ passes = 0
    /\ processed = 0

NextMain ==
    \/ OpenCsv
    \/ CreateDetector
    \/ StartDetector
    \/ MainConstruct
    \/ MainGetFrame
    \/ Process
    \/ PassEnd
    \/ StopDetector
    \/ Catch

SpecMain == InitMain /\ [][NextMain]_vars

\* -------------------------------------------------------------- claims
\* GetFrameData's return value as its locals hold it once it has returned.
Fetched == pc # "retry" /\ fetches >= 1
Loaded == frame_found /\ frame_retrieved
Pairs == {p \in (1..Len(accepted)) \X (1..Len(accepted)) : p[1] < p[2]}
Consecutive == {i \in 1..Len(accepted) : i + 1 <= Len(accepted)}

\* C1 as stated: at every sampling rate r >= 0, any two frames GetFrame
\* returned with true, in pull order, have strictly increasing timestamps,
\* whatever the decoder does.
C1_StrictlyIncreasing ==
    rate_arg >= 0 => \A p \in Pairs : WLess(accepted[p[1]].ts, accepted[p[2]].ts)

\* C1 amended: the timestamps of the returned frames are strictly increasing
\* whenever each frame the decoder decodes is reported at a later position than
\* the frame it decoded before.
C1_IncreasingOnMonotoneDecoder ==
    cap.mono => \A p \in Pairs : WLess(accepted[p[1]].ts, accepted[p[2]].ts)

\* Two frames returned by a monotone decoder with a frame dropped between them.
C1_Witness ==
    /\ cap.mono
    /\ sampling_frame_rate = Small(500)
    /\ Len(accepted) = 2
    /\ accepted[2].frame = accepted[1].frame + 2

\* C2 as stated: with r > 0, consecutive returned frames are at least
\* 1000 / r apart, whatever the decoder does.
C2_Spacing ==
    rate_arg > 0 =>
        \A i \in Consecutive :
            ~WLess(WSub(accepted[i + 1].ts, accepted[i].ts),
                   Interval(sampling_frame_rate))

\* C2 amended: with r > 0, two frames returned by two GetFrame calls in a row
\* are at least 1000 / r apart when the later one has a timestamp > 0 that is
\* not earlier than the first one's.
C2_SpacingOfLaterFrames ==
    WLess(Zero, sampling_frame_rate) =>
        \A i \in Consecutive :
            (/\ accepted[i + 1].call = accepted[i].call + 1
             /\ WLess(Zero, accepted[i + 1].ts)
             /\ WLeq(accepted[i].ts, accepted[i + 1].ts))
            => ~WLess(WSub(accepted[i + 1].ts, accepted[i].ts),
                      Interval(sampling_frame_rate))

\* Two calls in a row return frames, the second after dropping one.
C2_Witness ==
    /\ sampling_frame_rate = Small(500)
    /\ Len(accepted) = 2
    /\ accepted[2].call = accepted[1].call + 1
    /\ accepted[2].frame > accepted[1].frame + 1
    /\ WLess(accepted[1].ts, accepted[2].ts)

\* C3: on a fresh reader the first GetFrame call returns true with the first
\* frame a raw fetch delivers, whatever the rate and the frame's timestamp.
C3_FirstFrameReturned ==
    (calls = 1 /\ Fetched /\ Loaded) =>
        /\ pc = "idle"
        /\ ret
        /\ fetches = 1
        /\ accepted = <<[ts |-> timestamp_ms, frame |-> bgr_frame, call |-> 1]>>

\* C4: a construction given a negative sampling rate throws for the rate, makes
\* no reader and does not open the decoder.
C4_NegativeRateRejected ==
    (ctorResult # "not run" /\ rate_arg < 0) =>
        ctorResult = "rate" /\ pc = "none" /\ openCalls = 0

\* C5: with r = 0 a GetFrame call makes exactly one raw fetch and returns what
\* it returned, with its frame and timestamp.
C5_NoGateAtRateZero ==
    (pc \in {"idle", "fetch"} /\ sampling_frame_rate = Zero) =>
        /\ pc = "fetch" => fetches = 0
        /\ (pc = "idle" /\ calls >= 1) =>
              /\ fetches = 1
              /\ ret = Loaded
              /\ last_timestamp_ms = timestamp_ms
              /\ ret => accepted[Len(accepted)] =
                            [ts |-> timestamp_ms, frame |-> bgr_frame, call |-> calls]
              /\ ~ret => \A i \in 1..Len(accepted) : accepted[i].call < calls

\* With r = 0 two frames with the same timestamp are both returned.
C5_Witness ==
    /\ sampling_frame_rate = Zero
    /\ pc = "idle"
    /\ Len(accepted) = 2
    /\ accepted[1].ts = accepted[2].ts
    /\ WLess(Zero, accepted[2].ts)

\* C6: a GetFrame call begun after the stream has ended makes one raw fetch of
\* MAX_ATTEMPTS + 1 failed attempts and returns false, at every rate.
C6_ExhaustedAfterEnd ==
    endedAtCall =>
        /\ pc \in {"fetch", "retry", "idle"}
        /\ pc = "fetch" => fetches = 0
        /\ pc = "retry" => fetches = 1 /\ ~Loaded /\ n_attempts <= MAX_ATTEMPTS
        /\ pc = "idle" =>
              /\ ~ret
              /\ fetches = 1
              /\ n_attempts = MAX_ATTEMPTS + 1
              /\ \A i \in 1..Len(accepted) : accepted[i].call < calls

\* A frame was returned, the stream then ended, and the call after that
\* returned false.
C6_Witness ==
    /\ endedAtCall
    /\ pc = "idle"
    /\ calls = 3
    /\ Len(accepted) = 1

\* C7: a raw fetch whose first attempt failed and whose retry decoded a frame
\* at a timestamp not after the position recorded before the first attempt
\* reports failure, and the GetFrame call returns false.
C7_StalledRetryIsExhausted ==
    (Fetched /\ decoded /\ n_attempts > 0 /\ WLeq(timestamp_ms, prev_timestamp_ms)) =>
        /\ ~Loaded
        /\ pc = "idle"
        /\ ~ret
        /\ \A i \in 1..Len(accepted) : accepted[i].call < calls

\* A retry decoded a frame at exactly the position recorded before the fetch.
C7_Witness ==
    /\ Fetched
    /\ decoded
    /\ n_attempts > 0
    /\ timestamp_ms = prev_timestamp_ms
    /\ WLess(Zero, timestamp_ms)
    /\ sampling_frame_rate = Small(500)

\* C8: a construction given an extension outside the allow-list throws and
\* never calls cap.open.
C8_UnsupportedExtNotOpened ==
    (ctorResult # "not run" /\ file_ext \notin SUPPORTED_EXTS) =>
        ctorResult \in {"rate", "ext"} /\ pc = "none" /\ openCalls = 0

\* An upper-case extension was refused although the file could be opened.
C8_Witness ==
    ctorResult = "ext" /\ file_ext = ".MP4" /\ openCalls = 0

\* C9: after construction last_timestamp_ms is -(1000 / r) for r > 0 and -1
\* for r = 0.
C9_Sentinel ==
    (pc = "idle" /\ calls = 0 /\ rate_arg >= 0) =>
        last_timestamp_ms =
            IF rate_arg > 0 THEN Small(-(1000 \div rate_arg)) ELSE Small(-1)

\* The gate as the claim states it, in exact integers.
GateAsStated ==
    /\ WLess(Zero, sampling_frame_rate)
    /\ WLess(Zero, timestamp_ms')
    /\ WLess(WSub(timestamp_ms', last_timestamp_ms), Interval(sampling_frame_rate))

\* What C10 says of the step in which a raw fetch that delivered a frame
\* returns: the frame is dropped exactly when the gate holds, else returned;
\* it is the frame grabbed last, later than every frame returned before.
GateStep ==
    /\ (pc' = "fetch") <=> GateAsStated
    /\ (pc' = "idle") <=> ~GateAsStated
    /\ pc' = "idle" =>
          /\ ret'
          /\ accepted' = Append(accepted, [ts |-> timestamp_ms', frame |-> bgr_frame',
                                           call |-> calls'])
    /\ pc' = "fetch" => accepted' = accepted
    /\ bgr_frame' = cap'.count
    /\ \A i \in 1..Len(accepted) : accepted[i].frame < bgr_frame'

FetchDelivers == pc = "retry" /\ pc' # "retry" /\ frame_found' /\ frame_retrieved'

FetchStep ==
    /\ (pc = "retry" /\ pc' = "retry") =>
          /\ ~(frame_found /\ frame_retrieved)
          /\ n_attempts' = n_attempts + 1
          /\ n_attempts' <= MAX_ATTEMPTS
    /\ (pc = "retry" /\ pc' # "retry") =>
          /\ decoded \/ n_attempts = MAX_ATTEMPTS
          /\ ~decoded => n_attempts' = MAX_ATTEMPTS + 1 /\ ~Loaded'
          /\ (decoded /\ n_attempts = 0) => n_attempts' = 0 /\ Loaded'

\* C11: a raw fetch makes at most MAX_ATTEMPTS + 1 attempts (n_attempts + 1
\* have been made while it is at its while), retries only after a failed
\* attempt, fails when all of them failed, and returns a first attempt that
\* decoded a frame as success without comparing timestamps.
C11_BoundedRetries ==
    /\ [](pc = "retry" => n_attempts <= MAX_ATTEMPTS)
    /\ [][FetchStep]_vars

\* A first attempt decoded a frame at a position not after the one recorded
\* before it, and the fetch returned success.
C11_Witness ==
    /\ Fetched
    /\ decoded
    /\ n_attempts = 0
    /\ Loaded
    /\ WLess(Zero, timestamp_ms)
    /\ WLeq(timestamp_ms, prev_timestamp_ms)

\* C12: last_timestamp_ms is the timestamp of the latest frame GetFrame
\* returned with true, or what the constructor stored if there is none yet.
C12_LastIsLastAccepted ==
    pc # "none" =>
        last_timestamp_ms =
            IF accepted = <<>>
            THEN InitialLastTimestamp(tsType, sampling_frame_rate)
            ELSE accepted[Len(accepted)].ts

\* C13: every GetFrame call returns. The stream is finite: the decoder hands
\* out at most MaxDecoded frames, at whatever positions, repeated or not. The
\* do-while goes round again only after a decoded frame, so a call makes at
\* most one raw fetch more than the decoder has handed out frames.
C13_GetFrameReturns ==
    /\ [](fetches <= cap.count + 1)
    /\ (pc \in {"fetch", "retry"}) ~> (pc = "idle")

\* A call that discarded a frame and fetched again has returned, on a decoder
\* that reported the same position twice.
C13_Witness ==
    /\ pc = "idle"
    /\ calls >= 1
    /\ fetches >= 2
    /\ ~cap.mono

\* main has returned or died.
Exited == mpc \in {"exit0", "exit1", "crashed"}

\* detector->process(f) is called.
ProcessCall == processed' = processed + 1

\* C14: once detector->start() has been called, main exits with exactly one
\* detector->stop() call made (and never makes a second), whether playback ends
\* or a VideoReader construction throws in any pass; and every
\* detector->process call is made on the started, not yet stopped detector
\* with the frame and timestamp of a GetFrame call that returned true.
C14_StopOnceProcessWhileStarted ==
    /\ []((starts >= 1 /\ Exited) => stops = 1)
    /\ [](stops <= 1)
    /\ [][ProcessCall =>
            /\ detector = "started"
            /\ pc = "idle" /\ ret
            /\ Len(accepted) = processed + 1
            /\ accepted[Len(accepted)].ts = timestamp_ms
            /\ accepted[Len(accepted)].frame = bgr_frame]_vars

\* main returned 1 after the construction of the second pass's reader threw,
\* with the detector started once and stopped once.
C14_Witness ==
    /\ mpc = "exit1"
    /\ passes = 2
    /\ ctorResult = "open"
    /\ starts = 1
    /\ stops = 1
    /\ detector = "stopped"

\* C15: with --loop every pass pulls from a fresh reader (nothing decoded or
\* returned yet, last_timestamp_ms as the constructor stores it), the first
\* frame a pass decodes is returned by its first GetFrame call, and the first
\* frame of a pass is processed by a detector that was reset (or just
\* started) and has been given no frame since.
C15_FreshPass ==
    /\ []((loop /\ mpc = "frames" /\ calls = 0) =>
            /\ last_timestamp_ms = InitialLastTimestamp(tsType, sampling_frame_rate)
            /\ sampling_frame_rate = Small(main_rate)
            /\ cap.count = 0
            /\ accepted = <<>>)
    /\ []((loop /\ mpc # "off" /\ calls = 1 /\ Fetched /\ Loaded) =>
            pc = "idle" /\ ret /\ fetches = 1)
    /\ [][(loop /\ ProcessCall /\ processed = 0) => det_frames = 0]_vars

\* C16: main makes no member call through the empty unique_ptr: the detector
\* exists wherever the try block uses it, and the handler's detector->stop()
\* is reached with a detector only.
C16_NoCallThroughEmptyPointer ==
    /\ mpc \in {"configure", "construct", "frames", "process", "pass_end", "stop"} =>
          detector # "empty"
    /\ null_calls = 0

====
